---- MODULE Spec2Model ----
(***************************************************************************)
(* Kanban board: the in-memory task store (server/storage.ts), the HTTP    *)
(* routes in front of it (server/routes.ts) and the client command log     *)
(* (contexts/CommandHistoryContext.tsx) with the commands built by         *)
(* hooks/useTaskMiddleware.ts and the keyboard handler of the board.       *)
(*                                                                         *)
(* A task is modelled by the two fields the ordering engine reads and      *)
(* writes, status and position; ids are handed out by taskCurrentId, so    *)
(* the iteration order of the Map (insertion order) is ascending id.       *)
(***************************************************************************)
EXTENDS Integers, Sequences, FiniteSets, TLC

(* ---------------------------- bounds ----------------------------------- *)
MaxId == 3
MaxPos == 3
MaxCmd == 2
MaxCalls == 2
MaxLog == 3

(* ------------------------- program values ------------------------------ *)
\* JavaScript undefined (an absent optional argument or body field)
Undef == -1001
\* JavaScript null (routes.ts turns a falsy body.position into null)
NullPos == -1000

Statuses == {"todo", "done"}
PlaceBeforeVals == {"undefined", "true", "false"}
ReorderPosVals == {"undefined", "before", "after"}

VARIABLES tasks, taskCurrentId, last,
          commandHistory, redoStack, cmds, calls, moved, undone

storeVars == <<tasks, taskCurrentId>>
logVars == <<commandHistory, redoStack, cmds, calls, moved, undone>>
vars == <<tasks, taskCurrentId, last, commandHistory, redoStack, cmds, calls, moved, undone>>

(* --------------------------- the task store ---------------------------- *)
\* (t.position || 0)
PosOr0(p) == IF p = NullPos \/ p = Undef THEN 0 ELSE p

\* if (targetTaskId): 0 and undefined are falsy
Truthy(n) == n # Undef /\ n # 0

\* Array.from(this.tasks.values()): the ids in insertion order
RECURSIVE ValuesFrom(_, _)
ValuesFrom(T, i) ==
  IF i > MaxId THEN <<>>
  ELSE (IF i \in DOMAIN T THEN <<i>> ELSE <<>>) \o ValuesFrom(T, i + 1)

Values(T) == ValuesFrom(T, 1)

\* .filter(t => t.status === status)
FilterStatus(seq, T, status) == SelectSeq(seq, LAMBDA t : T[t].status = status)

\* (a, b) => (a.position || 0) - (b.position || 0)
ComparePos(a, b, T) == PosOr0(T[a].position) - PosOr0(T[b].position)

\* the comparator of finalTasksOrdering in updateTaskStatus
CompareMoved(a, b, T, id) ==
  IF a = id
    THEN PosOr0(T[a].position) - (IF b = id THEN PosOr0(T[a].position) ELSE PosOr0(T[b].position))
    ELSE IF b = id
      THEN (IF a = id THEN PosOr0(T[b].position) ELSE PosOr0(T[a].position)) - PosOr0(T[b].position)
      ELSE PosOr0(T[a].position) - PosOr0(T[b].position)

Compare(a, b, T, id) == IF id = Undef THEN ComparePos(a, b, T) ELSE CompareMoved(a, b, T, id)

RECURSIVE InsertSortedUnstable(_, _, _, _)
InsertSortedUnstable(x, sorted, T, id) ==
  IF sorted = <<>> THEN <<x>>
  ELSE IF Compare(Head(sorted), x, T, id) >= 0 THEN <<x>> \o sorted
  ELSE <<Head(sorted)>> \o InsertSortedUnstable(x, Tail(sorted), T, id)

\* Array.prototype.sort is stable: x goes after every element that does not
\* compare greater than it
RECURSIVE InsertSorted(_, _, _, _)
InsertSorted(x, sorted, T, id) ==
  IF sorted = <<>> THEN <<x>>
  ELSE IF Compare(Head(sorted), x, T, id) > 0 THEN <<x>> \o sorted
  ELSE <<Head(sorted)>> \o InsertSorted(x, Tail(sorted), T, id)

RECURSIVE SortFrom(_, _, _, _)
SortFrom(seq, acc, T, id) ==
  IF seq = <<>> THEN acc
  ELSE SortFrom(Tail(seq), InsertSorted(Head(seq), acc, T, id), T, id)

\* seq.sort(comparator)
Sort(seq, T, id) == SortFrom(seq, <<>>, T, id)

\* the column as every reader derives it: filter by status, sort by position
Column(T, status) == Sort(FilterStatus(Values(T), T, status), T, Undef)

Range(seq) == {seq[i] : i \in 1..Len(seq)}

IndexOf(seq, x) == IF x \in Range(seq) THEN CHOOSE i \in 1..Len(seq) : seq[i] = x ELSE 0

MaxOf(S) == CHOOSE m \in S : \A x \in S : x <= m

Put(T, id, rec) == [t \in DOMAIN T \cup {id} |-> IF t = id THEN rec ELSE T[t]]

SetPos(T, id, p) == [T EXCEPT ![id].position = p]

CreatePositionByCount(T, status, position) ==
  LET tasksInColumn == FilterStatus(Values(T), T, status)
  IN IF position = NullPos \/ position = Undef THEN Len(tasksInColumn) ELSE position

\* createTask: an explicit position is stored as given, otherwise bottom
CreatePosition(T, status, position) ==
  LET tasksInColumn == FilterStatus(Values(T), T, status)
  IN IF position = NullPos \/ position = Undef
       THEN IF Len(tasksInColumn) > 0
              THEN MaxOf({PosOr0(T[t].position) : t \in Range(tasksInColumn)}) + 1
              ELSE 0
       ELSE position

createTask(T, id, status, position) ==
  Put(T, id, [status |-> status, position |-> CreatePosition(T, status, position)])

\* updateTask: position is kept only when the payload's position is undefined
updateTask(T, id, status, position) ==
  Put(T, id, [status |-> status,
              position |-> IF position # Undef THEN position ELSE T[id].position])

updateTaskPosition(T, id, position) == SetPos(T, id, position)

deleteTask(T, id) == [t \in DOMAIN T \ {id} |-> T[t]]

InsertPositionIgnoringTarget(T, targetPosition, targetTaskId) ==
  IF targetPosition # Undef THEN targetPosition ELSE 0

\* updateTaskStatus, lines 230-247: the position given to the moved task
InsertPosition(T, targetPosition, targetTaskId) ==
  IF Truthy(targetTaskId)
    THEN IF targetTaskId \in DOMAIN T THEN PosOr0(T[targetTaskId].position) ELSE 0
    ELSE IF targetPosition # Undef THEN targetPosition ELSE 0

\* let toTop = targetPosition === undefined && targetTaskId === undefined
ToTop(targetPosition, targetTaskId) == targetPosition = Undef /\ targetTaskId = Undef

\* the record updateTaskStatus stores in STEP 1 and returns at the end
UpdatedTask(T, status, targetPosition, targetTaskId) ==
  [status |-> status, position |-> InsertPosition(T, targetPosition, targetTaskId)]

RenumberSkipped(T, final) == T

\* STEP 3, !toTop: every task of the final ordering gets its array index
Renumber(T, final) ==
  [t \in DOMAIN T |-> IF t \in Range(final)
                        THEN [T[t] EXCEPT !.position = IndexOf(final, t) - 1]
                        ELSE T[t]]

ShiftDownSkipped(T, column, id) == T

\* STEP 3, toTop: every task of the column but the moved one shifts down by 1
ShiftDown(T, column, id) ==
  [t \in DOMAIN T |-> IF t \in Range(column) /\ t # id
                        THEN [T[t] EXCEPT !.position = PosOr0(T[t].position) + 1]
                        ELSE T[t]]

updateTaskStatusRenumberingSource(T, id, status, targetPosition, targetTaskId, placeBefore) ==
  LET T1 == Put(T, id, UpdatedTask(T, status, targetPosition, targetTaskId))
      tasksInTargetColumn == Sort(FilterStatus(Values(T1), T1, status), T1, Undef)
      finalTasksOrdering == Sort(tasksInTargetColumn, T1, id)
      T2 == IF ~ToTop(targetPosition, targetTaskId)
              THEN Renumber(T1, finalTasksOrdering)
              ELSE ShiftDown(T1, tasksInTargetColumn, id)
  IN Renumber(T2, Sort(FilterStatus(Values(T2), T2, T[id].status), T2, Undef))

updateTaskStatus(T, id, status, targetPosition, targetTaskId, placeBefore) ==
  LET T1 == Put(T, id, UpdatedTask(T, status, targetPosition, targetTaskId))
      tasksInTargetColumn == Sort(FilterStatus(Values(T1), T1, status), T1, Undef)
      finalTasksOrdering == Sort(tasksInTargetColumn, T1, id)
  IN IF ~ToTop(targetPosition, targetTaskId)
       THEN Renumber(T1, finalTasksOrdering)
       ELSE ShiftDown(T1, tasksInTargetColumn, id)

\* let insertPosition = placeAfter ? targetIndex + 1 : targetIndex (0-based)
ReorderInsertIndexAlwaysBefore(targetIndex, placeAfter) == targetIndex

ReorderInsertIndex(targetIndex, placeAfter) ==
  IF placeAfter THEN targetIndex + 1 ELSE targetIndex

\* [...updatedTasks.slice(0, insertPosition), task, ...updatedTasks.slice(insertPosition)]
Splice(seq, at, x) == SubSeq(seq, 1, at) \o <<x>> \o SubSeq(seq, at + 1, Len(seq))

\* the ordering reorderTaskInColumn writes back, or <<>> when it returns early
ReorderedColumn(T, taskId, targetTaskId, placeAfter) ==
  IF taskId \notin DOMAIN T \/ targetTaskId \notin DOMAIN T THEN <<>>
  ELSE IF T[taskId].status # T[targetTaskId].status THEN <<>>
  ELSE LET tasksInColumn == Sort(FilterStatus(Values(T), T, T[taskId].status), T, Undef)
           updatedTasks == SelectSeq(tasksInColumn, LAMBDA t : t # taskId)
           targetIndex == IndexOf(updatedTasks, targetTaskId) - 1
       IN IF targetIndex = -1 THEN <<>>
          ELSE Splice(updatedTasks, ReorderInsertIndex(targetIndex, placeAfter), taskId)

reorderTaskInColumn(T, taskId, targetTaskId, placeAfter) ==
  Renumber(T, ReorderedColumn(T, taskId, targetTaskId, placeAfter))

(* ------------------------------ routes --------------------------------- *)
\* req.body.position || null
PositionOrNull(position) == IF position = Undef \/ position = 0 THEN NullPos ELSE position

\* PATCH /api/tasks/:id/status, lines 138-177, for a task that exists
PatchStatusStore(T, id, status, targetTaskId, position, top, placeBefore) ==
  IF T[id].status # status
    THEN IF Truthy(targetTaskId)
           THEN updateTaskStatus(T, id, status, Undef, targetTaskId, placeBefore)
           ELSE IF position # Undef
             THEN updateTaskStatus(T, id, status, position, Undef, "undefined")
             ELSE IF top
               THEN updateTaskStatus(T, id, status, Undef, Undef, "undefined")
               ELSE updateTaskStatus(T, id, status, Undef, Undef, "undefined")
    ELSE IF Truthy(targetTaskId)
           THEN reorderTaskInColumn(T, id, targetTaskId,
                                    IF placeBefore = "undefined" THEN FALSE ELSE placeBefore = "false")
           ELSE updateTaskStatus(T, id, status, position, targetTaskId, placeBefore)

ReorderPlaceAfterOnlyExplicit(T, id, targetTaskId, position) == position = "after"

\* POST /api/tasks/:id/reorder, lines 243-250
ReorderPlaceAfter(T, id, targetTaskId, position) ==
  LET isMovingDown == T[id].status = T[targetTaskId].status
                      /\ PosOr0(T[id].position) < PosOr0(T[targetTaskId].position)
  IN position = "after" \/ (isMovingDown /\ position # "before")

(* ------------------- the last request and its response ----------------- *)
\* op: the route or command-log call; id, status, tgt, pos, top, pb: what
\* the request carried; code: the HTTP status; ret: the position in the task
\* record a move returns; for a call of the command log, cmd: the command,
\* ok: whether its execute/undo resolved, code: the status of the request it
\* sent (0: none), n: the length of redoStack when the call returned, and
\* outcome: how the call's own promise ended
Resp(op, id, status, tgt, pos, top, pb, code, ret) ==
  [op |-> op, id |-> id, status |-> status, tgt |-> tgt, pos |-> pos, top |-> top,
   pb |-> pb, code |-> code, ret |-> ret, cmd |-> 0, ok |-> code < 400, n |-> 0,
   outcome |-> ""]

NoResp == Resp("", 0, "", Undef, Undef, FALSE, "undefined", 0, Undef)

Ids == 1..MaxId
PosInputs == 0..MaxPos

\* positions stay inside the modelled range
InRange(T) == \A t \in DOMAIN T : PosOr0(T[t].position) <= MaxPos

\* the position of the record PATCH /status answers with
PatchStatusReturn(T, id, status, targetTaskId, position, top, placeBefore) ==
  IF T[id].status = status /\ Truthy(targetTaskId)
    THEN LET T2 == PatchStatusStore(T, id, status, targetTaskId, position, top, placeBefore)
         IN T2[id].position
    ELSE IF T[id].status # status
      THEN IF Truthy(targetTaskId) THEN InsertPosition(T, Undef, targetTaskId)
           ELSE InsertPosition(T, position, Undef)
      ELSE InsertPosition(T, position, targetTaskId)

\* POST /api/tasks
PostTask(status, position) ==
  /\ taskCurrentId <= MaxId
  /\ tasks' = createTask(tasks, taskCurrentId, status, PositionOrNull(position))
  /\ InRange(tasks')
  /\ taskCurrentId' = taskCurrentId + 1

PostTaskResp(status, position) ==
  Resp("POST task", taskCurrentId, status, Undef, position, FALSE, "undefined", 201, Undef)

\* PUT /api/tasks/:id
PutTask(id, status, position) ==
  /\ tasks' = IF id \in DOMAIN tasks
                THEN updateTask(tasks, id, status, PositionOrNull(position))
                ELSE tasks
  /\ UNCHANGED taskCurrentId

PutTaskResp(id, status, position) ==
  Resp("PUT task", id, status, Undef, position, FALSE, "undefined",
       IF id \in DOMAIN tasks THEN 200 ELSE 404, Undef)

\* PATCH /api/tasks/:id/status
PatchStatus(id, status, targetTaskId, position, top, placeBefore) ==
  /\ tasks' = IF id \in DOMAIN tasks
                THEN PatchStatusStore(tasks, id, status, targetTaskId, position, top, placeBefore)
                ELSE tasks
  /\ InRange(tasks')
  /\ UNCHANGED taskCurrentId

PatchStatusResp(id, status, targetTaskId, position, top, placeBefore) ==
  IF id \in DOMAIN tasks
    THEN Resp("PATCH status", id, status, targetTaskId, position, top, placeBefore, 200,
              PatchStatusReturn(tasks, id, status, targetTaskId, position, top, placeBefore))
    ELSE Resp("PATCH status", id, status, targetTaskId, position, top, placeBefore, 404, Undef)

\* PATCH /api/tasks/:id/position
PatchPosition(id, position) ==
  /\ tasks' = IF id \in DOMAIN tasks THEN updateTaskPosition(tasks, id, position) ELSE tasks
  /\ UNCHANGED taskCurrentId

PatchPositionResp(id, position) ==
  Resp("PATCH position", id, "", Undef, position, FALSE, "undefined",
       IF id \in DOMAIN tasks THEN 200 ELSE 404, Undef)

\* POST /api/tasks/:id/reorder: the status code
PostReorderCode(T, id, targetTaskId) ==
  IF id = targetTaskId THEN 400
  ELSE IF id \notin DOMAIN T \/ targetTaskId \notin DOMAIN T THEN 404
  ELSE 200

PostReorderStore(T, id, targetTaskId, position) ==
  IF PostReorderCode(T, id, targetTaskId) = 200
    THEN reorderTaskInColumn(T, id, targetTaskId, ReorderPlaceAfter(T, id, targetTaskId, position))
    ELSE T

PostReorder(id, targetTaskId, position) ==
  /\ tasks' = PostReorderStore(tasks, id, targetTaskId, position)
  /\ UNCHANGED taskCurrentId

PostReorderResp(id, targetTaskId, position) ==
  Resp("POST reorder", id, "", targetTaskId, Undef, FALSE, position,
       PostReorderCode(tasks, id, targetTaskId), Undef)

\* DELETE /api/tasks/:id
DeleteTask(id) ==
  /\ tasks' = IF id \in DOMAIN tasks THEN deleteTask(tasks, id) ELSE tasks
  /\ UNCHANGED taskCurrentId

DeleteTaskResp(id) ==
  Resp("DELETE task", id, "", Undef, Undef, FALSE, "undefined",
       IF id \in DOMAIN tasks THEN 204 ELSE 404, Undef)

(* --------------------------- the commands ------------------------------- *)
\* a command object: a MoveTaskCommand (custom: built by handleMoveTask with a
\* customExecuteFn; otherwise by the keyboard handler) or a ReorderTaskCommand
MoveTaskCommand(taskId, sourceStatus, targetStatus, custom, targetTaskId) ==
  [kind |-> "move", custom |-> custom, taskId |-> taskId, sourceStatus |-> sourceStatus,
   targetStatus |-> targetStatus, targetTaskId |-> targetTaskId, previousOrder |-> <<>>]

\* previousOrder: the column's tasks sorted by position, each with its position
Snapshot(T, status) ==
  LET col == Column(T, status)
  IN [i \in 1..Len(col) |-> [id |-> col[i], position |-> T[col[i]].position]]

ReorderTaskCommand(status, T, taskId, targetTaskId) ==
  [kind |-> "reorder", custom |-> TRUE, taskId |-> taskId, sourceStatus |-> status,
   targetStatus |-> status, targetTaskId |-> targetTaskId, previousOrder |-> Snapshot(T, status)]

ExecuteMoveStoreToSource(T, c) ==
  IF c.taskId \notin DOMAIN T THEN T
  ELSE PatchStatusStore(T, c.taskId, c.sourceStatus, Undef, 0, TRUE, "undefined")

\* the request of MoveTaskCommand.execute: the customExecuteFn of handleMoveTask
\* dispatches MOVE_TASK with targetTaskId or toTop; the default sends
\* {status, position: 0, forceTop: true}
ExecuteMoveStore(T, c) ==
  IF c.taskId \notin DOMAIN T THEN T
  ELSE IF c.custom
    THEN PatchStatusStore(T, c.taskId, c.targetStatus, c.targetTaskId, Undef,
                          ~Truthy(c.targetTaskId), "undefined")
    ELSE PatchStatusStore(T, c.taskId, c.targetStatus, Undef, 0, TRUE, "undefined")

UndoMoveStatusTarget(c) == c.targetStatus

\* the request of MoveTaskCommand.undo: {status: sourceStatus, position: 0, forceTop: true}
UndoMoveStatus(c) == c.sourceStatus

UndoMoveStore(T, c) ==
  IF c.taskId \notin DOMAIN T THEN T
  ELSE PatchStatusStore(T, c.taskId, UndoMoveStatus(c), Undef, 0, TRUE, "undefined")

\* the request of the executeFn of handleReorderTask: POST reorder {targetTaskId}
ExecuteReorderStore(T, c) == PostReorderStore(T, c.taskId, c.targetTaskId, "undefined")

\* ReorderTaskCommand.undo only invalidates the query cache
UndoReorderStore(T, c) == T

ExecuteStore(T, c) == IF c.kind = "move" THEN ExecuteMoveStore(T, c) ELSE ExecuteReorderStore(T, c)

UndoStore(T, c) == IF c.kind = "move" THEN UndoMoveStore(T, c) ELSE UndoReorderStore(T, c)

\* the status code of the request execute sends
ExecuteCode(T, c) ==
  IF c.kind = "move" THEN (IF c.taskId \in DOMAIN T THEN 200 ELSE 404)
  ELSE PostReorderCode(T, c.taskId, c.targetTaskId)

\* the status code of the request undo sends (0: it sends none)
UndoCode(T, c) ==
  IF c.kind = "move" THEN (IF c.taskId \in DOMAIN T THEN 200 ELSE 404) ELSE 0

\* apiRequest throws on an error status
ApiThrows(code) == code >= 400

\* whether command.execute() resolves: taskMiddleware turns a failed request
\* into an _ERROR action and dispatch returns it, so a custom execute and a
\* reorder do not see it; the default move rethrows it; a failing cache
\* invalidation, or the GET /api/tasks after a reorder (netOk = FALSE), is
\* rethrown by both
ExecuteResolves(c, code, netOk) ==
  IF c.kind = "move" /\ ~c.custom THEN ~ApiThrows(code) /\ netOk ELSE netOk

\* whether command.undo() resolves: MoveTaskCommand.undo catches and continues,
\* ReorderTaskCommand.undo rethrows
UndoResolves(c, code, netOk) == IF c.kind = "move" THEN TRUE ELSE netOk

(* --------------------------- the command log ---------------------------- *)
\* a call of executeCommand, undo or redo that is awaiting its command: the
\* request is handled by the server when the call sends it, in the order the
\* calls are made; ok and code are what the awaited promise will deliver
Idle == [op |-> "", cmd |-> 0, ok |-> FALSE, code |-> 0]

IdleSlots == {i \in 1..MaxCalls : calls[i].op = ""}

FreeSlot == CHOOSE i \in IdleSlots : \A j \in IdleSlots : i <= j

\* interleaved calls can duplicate entries without end: a call starts only
\* while the two stacks and the calls in flight stay within MaxLog entries
Room == Len(commandHistory) + Len(redoStack) + (MaxCalls - Cardinality(IdleSlots)) < MaxLog

canUndo == Len(commandHistory) > 0

canRedo == Len(redoStack) > 0

\* prev => [...prev, command]
Push(prev, c) == Append(prev, c)

\* prev => prev.slice(0, -1)
Pop(prev) == SubSeq(prev, 1, Len(prev) - 1)

ClearedRedoStackKept(prev) == prev

\* setRedoStack([]) after a successful execute
ClearedRedoStack(prev) == <<>>

\* every catch block of executeCommand, undo and redo logs, toasts and returns
CallOutcome(ok) == "resolved"

LogResp(op, c, ok, code, n) ==
  [NoResp EXCEPT !.op = op, !.cmd = c, !.ok = ok, !.code = code, !.n = n,
                 !.outcome = CallOutcome(ok)]

\* who last acted on task t: moved[t] = c when command c's execute moved t from
\* c.sourceStatus to another status and nothing has acted on t since;
\* undone[t] = c when c's undo then ran on t and nothing has acted on t since
MovedBy(T, c, cid) ==
  IF /\ c.kind = "move"
     /\ c.taskId \in DOMAIN T
     /\ T[c.taskId].status = c.sourceStatus
     /\ c.sourceStatus # c.targetStatus
    THEN cid ELSE 0

\* await command.execute(), in executeCommand and in redo
AwaitExecute(op, cid, c, netOk) ==
  /\ IdleSlots # {}
  /\ Room
  /\ tasks' = ExecuteStore(tasks, c)
  /\ InRange(tasks')
  /\ calls' = [calls EXCEPT ![FreeSlot] =
                 [op |-> op, cmd |-> cid, code |-> ExecuteCode(tasks, c),
                  ok |-> ExecuteResolves(c, ExecuteCode(tasks, c), netOk)]]
  /\ moved' = [moved EXCEPT ![c.taskId] = MovedBy(tasks, c, cid)]
  /\ undone' = [undone EXCEPT ![c.taskId] = 0]
  /\ UNCHANGED <<taskCurrentId, last, commandHistory, redoStack>>

\* the board draws its cards from a cached task list: a card it shows was
\* created, has the status the command captures, and may have been deleted
\* from the store since the list was fetched
Shown(taskId, status) ==
  /\ taskId < taskCurrentId
  /\ taskId \in DOMAIN tasks => tasks[taskId].status = status

\* a drag to another column (handleMoveTask, custom) or a keyboard move: the
\* command is constructed from the task as the board shows it and handed to
\* executeCommand
StartMove(taskId, sourceStatus, targetStatus, custom, targetTaskId, netOk) ==
  /\ Len(cmds) < MaxCmd
  /\ Shown(taskId, sourceStatus)
  /\ sourceStatus # targetStatus
  /\ Truthy(targetTaskId) =>
       /\ custom
       /\ Shown(targetTaskId, targetStatus)
  /\ LET c == MoveTaskCommand(taskId, sourceStatus, targetStatus, custom, targetTaskId)
     IN /\ cmds' = Append(cmds, c)
        /\ AwaitExecute("executeCommand", Len(cmds) + 1, c, netOk)

\* a drop on another card of the same column (handleReorderTask)
StartReorder(taskId, targetTaskId, status, netOk) ==
  /\ Len(cmds) < MaxCmd
  /\ Shown(taskId, status)
  /\ Shown(targetTaskId, status)
  /\ taskId # targetTaskId
  /\ LET c == ReorderTaskCommand(status, tasks, taskId, targetTaskId)
     IN /\ cmds' = Append(cmds, c)
        /\ AwaitExecute("executeCommand", Len(cmds) + 1, c, netOk)

\* redo(): returns at once unless canRedo; lastUndoneCommand is the end of
\* the redoStack the callback closed over
StartRedo(netOk) ==
  /\ canRedo
  /\ AwaitExecute("redo", redoStack[Len(redoStack)], cmds[redoStack[Len(redoStack)]], netOk)
  /\ UNCHANGED cmds

\* undo(): returns at once unless canUndo; lastCommand is the end of the
\* commandHistory the callback closed over
StartUndo(netOk) ==
  /\ canUndo
  /\ IdleSlots # {}
  /\ Room
  /\ LET cid == commandHistory[Len(commandHistory)]
         c == cmds[cid]
     IN /\ tasks' = UndoStore(tasks, c)
        /\ InRange(tasks')
        /\ calls' = [calls EXCEPT ![FreeSlot] =
                       [op |-> "undo", cmd |-> cid, code |-> UndoCode(tasks, c),
                        ok |-> UndoResolves(c, UndoCode(tasks, c), netOk)]]
        /\ IF c.kind = "move"
             THEN /\ undone' = [undone EXCEPT ![c.taskId] =
                                  IF moved[c.taskId] = cid THEN cid ELSE 0]
                  /\ moved' = [moved EXCEPT ![c.taskId] = 0]
             ELSE UNCHANGED <<moved, undone>>
  /\ UNCHANGED <<taskCurrentId, last, commandHistory, redoStack, cmds>>

\* executeCommand after the await: push and clear, or the catch block
FinishExecute(i) ==
  /\ calls[i].op = "executeCommand"
  /\ IF calls[i].ok
       THEN /\ commandHistory' = Push(commandHistory, calls[i].cmd)
            /\ redoStack' = ClearedRedoStack(redoStack)
       ELSE UNCHANGED <<commandHistory, redoStack>>
  /\ last' = LogResp("executeCommand", calls[i].cmd, calls[i].ok, calls[i].code, Len(redoStack))
  /\ calls' = [calls EXCEPT ![i] = Idle]
  /\ UNCHANGED <<tasks, taskCurrentId, cmds, moved, undone>>

\* undo after the await
FinishUndo(i) ==
  /\ calls[i].op = "undo"
  /\ IF calls[i].ok
       THEN /\ commandHistory' = Pop(commandHistory)
            /\ redoStack' = Push(redoStack, calls[i].cmd)
       ELSE UNCHANGED <<commandHistory, redoStack>>
  /\ last' = LogResp("undo", calls[i].cmd, calls[i].ok, calls[i].code, Len(redoStack))
  /\ calls' = [calls EXCEPT ![i] = Idle]
  /\ UNCHANGED <<tasks, taskCurrentId, cmds, moved, undone>>

\* redo after the await
FinishRedo(i) ==
  /\ calls[i].op = "redo"
  /\ IF calls[i].ok
       THEN /\ redoStack' = Pop(redoStack)
            /\ commandHistory' = Push(commandHistory, calls[i].cmd)
       ELSE UNCHANGED <<commandHistory, redoStack>>
  /\ last' = LogResp("redo", calls[i].cmd, calls[i].ok, calls[i].code, Len(redoStack))
  /\ calls' = [calls EXCEPT ![i] = Idle]
  /\ UNCHANGED <<tasks, taskCurrentId, cmds, moved, undone>>

\* the delete button of a card (DELETE /api/tasks/:id), outside the log
DeleteCard(id) ==
  /\ id \in DOMAIN tasks
  /\ DeleteTask(id)
  /\ last' = DeleteTaskResp(id)
  /\ moved' = [moved EXCEPT ![id] = 0]
  /\ undone' = [undone EXCEPT ![id] = 0]
  /\ UNCHANGED <<commandHistory, redoStack, cmds, calls>>

(* ------------------------------ initial state -------------------------- *)
\* the sample board of initializeSampleTasks, scaled to two tasks: every
\* column starts at positions 0..N-1 in creation order
SampleTasks ==
  (1 :> [status |-> "todo", position |-> 0]) @@
  (2 :> [status |-> "todo", position |-> 1])

Init ==
  /\ tasks = SampleTasks
  /\ taskCurrentId = 3
  /\ last = NoResp
  /\ commandHistory = <<>>
  /\ redoStack = <<>>
  /\ cmds = <<>>
  /\ calls = [i \in 1..MaxCalls |-> Idle]
  /\ moved = [t \in Ids |-> 0]
  /\ undone = [t \in Ids |-> 0]

(* --------- the board: the requests the drag-and-drop client sends ------- *)
\* a move names a target task (with or without placeBefore), an explicit
\* position, toTop, or nothing
MoveRequest(id, status, targetTaskId, position, top, placeBefore) ==
  /\ PatchStatus(id, status, targetTaskId, position, top, placeBefore)
  /\ last' = PatchStatusResp(id, status, targetTaskId, position, top, placeBefore)

NextBoard ==
  \/ \E status \in Statuses :
       PostTask(status, Undef) /\ last' = PostTaskResp(status, Undef) /\ UNCHANGED logVars
  \/ \E id \in Ids, status \in Statuses, targetTaskId \in Ids, placeBefore \in PlaceBeforeVals :
       MoveRequest(id, status, targetTaskId, Undef, FALSE, placeBefore) /\ UNCHANGED logVars
  \/ \E id \in Ids, status \in Statuses, position \in PosInputs :
       MoveRequest(id, status, Undef, position, FALSE, "undefined") /\ UNCHANGED logVars
  \/ \E id \in Ids, status \in Statuses, top \in BOOLEAN :
       MoveRequest(id, status, Undef, Undef, top, "undefined") /\ UNCHANGED logVars
  \/ \E id \in Ids, targetTaskId \in Ids, position \in ReorderPosVals :
       /\ PostReorder(id, targetTaskId, position)
       /\ last' = PostReorderResp(id, targetTaskId, position)
       /\ UNCHANGED logVars
  \/ \E id \in Ids : DeleteTask(id) /\ last' = DeleteTaskResp(id) /\ UNCHANGED logVars

Spec == Init /\ [][NextBoard]_vars

(* ------------- the store behind every route, any request body ----------- *)
NextStore ==
  \/ \E status \in Statuses, position \in {Undef} \cup PosInputs :
       PostTask(status, position) /\ UNCHANGED <<last, logVars>>
  \/ \E id \in Ids, status \in Statuses, position \in {Undef} \cup PosInputs :
       PutTask(id, status, position) /\ UNCHANGED <<last, logVars>>
  \/ \E id \in Ids, status \in Statuses, targetTaskId \in {Undef} \cup Ids,
        position \in {Undef} \cup PosInputs, placeBefore \in PlaceBeforeVals :
       PatchStatus(id, status, targetTaskId, position, FALSE, placeBefore) /\ UNCHANGED <<last, logVars>>
  \/ \E id \in Ids, position \in PosInputs :
       PatchPosition(id, position) /\ UNCHANGED <<last, logVars>>
  \/ \E id \in Ids, targetTaskId \in Ids, position \in ReorderPosVals :
       PostReorder(id, targetTaskId, position) /\ UNCHANGED <<last, logVars>>
  \/ \E id \in Ids : DeleteTask(id) /\ UNCHANGED <<last, logVars>>

SpecStore == Init /\ [][NextStore]_vars

(* ------------- the board driven through the command log ----------------- *)
\* drags to another column are drops on the column itself (no target card):
\* where a drop on a card lands is the board specification's subject
NextLog ==
  \/ \E taskId \in Ids, sourceStatus \in Statuses, targetStatus \in Statuses, netOk \in BOOLEAN :
       StartMove(taskId, sourceStatus, targetStatus, TRUE, Undef, netOk)
  \/ \E taskId \in Ids, sourceStatus \in Statuses, targetStatus \in Statuses, netOk \in BOOLEAN :
       StartMove(taskId, sourceStatus, targetStatus, FALSE, Undef, netOk)
  \/ \E taskId \in Ids, targetTaskId \in Ids, status \in Statuses, netOk \in BOOLEAN :
       StartReorder(taskId, targetTaskId, status, netOk)
  \/ \E netOk \in BOOLEAN : StartUndo(netOk)
  \/ \E netOk \in BOOLEAN : StartRedo(netOk)
  \/ \E i \in 1..MaxCalls : FinishExecute(i)
  \/ \E i \in 1..MaxCalls : FinishUndo(i)
  \/ \E i \in 1..MaxCalls : FinishRedo(i)
  \/ \E id \in Ids : DeleteCard(id)

SpecLog == Init /\ [][NextLog]_vars

(* -------- a drop on the board: both mouseup listeners run --------------- *)
\* while a card is dragged, window has two mouseup/touchend listeners: the
\* handleDragEnd of useDragAndDrop, which sends the request itself, and the
\* handleDragEnd of KanbanBoard, which hands a command to executeCommand.
\* Neither waits for the other, so one drop sends two requests.

\* useDragAndDrop.handleDragEnd, case 1: PATCH /status {status, targetTaskId,
\* placeBefore} or {status, toTop: true}
HookMoveStore(T, taskId, targetStatus, targetTaskId, placeBefore) ==
  IF taskId \in DOMAIN T
    THEN PatchStatusStore(T, taskId, targetStatus, targetTaskId, Undef,
                          ~Truthy(targetTaskId), placeBefore)
    ELSE T

HookMoveCode(T, taskId) == IF taskId \in DOMAIN T THEN 200 ELSE 404

\* useDragAndDrop.handleDragEnd awaiting its request; it catches the error
\* of a failed request itself
HookCall(code) == [op |-> "handleDragEnd", cmd |-> 0, code |-> code, ok |-> TRUE]

SecondFreeSlot == CHOOSE i \in IdleSlots \ {FreeSlot} : \A j \in IdleSlots \ {FreeSlot} : i <= j

\* a card is dropped on another column, on the column itself or on one of
\* its cards (a drop on the card's own column outside any card sends the
\* hook's request only and is a request of the board specification). The
\* two requests reach the server in either order; seen is the store as the
\* command's request finds it
DropMove(taskId, sourceStatus, targetStatus, targetTaskId, placeBefore, hookFirst) ==
  /\ Len(cmds) < MaxCmd
  /\ Cardinality(IdleSlots) >= 2
  /\ Room
  /\ Shown(taskId, sourceStatus)
  /\ sourceStatus # targetStatus
  /\ Truthy(targetTaskId) => Shown(targetTaskId, targetStatus)
  /\ ~Truthy(targetTaskId) => placeBefore = "undefined"
  /\ LET c == MoveTaskCommand(taskId, sourceStatus, targetStatus, TRUE, targetTaskId)
         Hook(T) == HookMoveStore(T, taskId, targetStatus, targetTaskId, placeBefore)
         Command(T) == ExecuteStore(T, c)
         seen == IF hookFirst THEN Hook(tasks) ELSE tasks
     IN /\ cmds' = Append(cmds, c)
        /\ tasks' = IF hookFirst THEN Command(Hook(tasks)) ELSE Hook(Command(tasks))
        /\ InRange(tasks')
        /\ calls' = [calls EXCEPT
                       ![FreeSlot] = HookCall(HookMoveCode(tasks, taskId)),
                       ![SecondFreeSlot] =
                         [op |-> "executeCommand", cmd |-> Len(cmds) + 1,
                          code |-> ExecuteCode(seen, c),
                          ok |-> ExecuteResolves(c, ExecuteCode(seen, c), TRUE)]]
        /\ moved' = [moved EXCEPT ![taskId] = 0]
        /\ undone' = [undone EXCEPT ![taskId] = 0]
  /\ UNCHANGED <<taskCurrentId, last, commandHistory, redoStack>>

\* a card is dropped on another card of its own column: the hook sends POST
\* /reorder with the side it read from the DOM, the board a ReorderTaskCommand
DropReorder(taskId, targetTaskId, status, position, hookFirst) ==
  /\ Len(cmds) < MaxCmd
  /\ Cardinality(IdleSlots) >= 2
  /\ Room
  /\ Shown(taskId, status)
  /\ Shown(targetTaskId, status)
  /\ taskId # targetTaskId
  /\ position \in {"before", "after"}
  /\ LET c == ReorderTaskCommand(status, tasks, taskId, targetTaskId)
         Hook(T) == PostReorderStore(T, taskId, targetTaskId, position)
         Command(T) == ExecuteStore(T, c)
         seen == IF hookFirst THEN Hook(tasks) ELSE tasks
     IN /\ cmds' = Append(cmds, c)
        /\ tasks' = IF hookFirst THEN Command(Hook(tasks)) ELSE Hook(Command(tasks))
        /\ InRange(tasks')
        /\ calls' = [calls EXCEPT
                       ![FreeSlot] = HookCall(PostReorderCode(tasks, taskId, targetTaskId)),
                       ![SecondFreeSlot] =
                         [op |-> "executeCommand", cmd |-> Len(cmds) + 1,
                          code |-> ExecuteCode(seen, c),
                          ok |-> ExecuteResolves(c, ExecuteCode(seen, c), TRUE)]]
        /\ moved' = [moved EXCEPT ![taskId] = 0]
        /\ undone' = [undone EXCEPT ![taskId] = 0]
  /\ UNCHANGED <<taskCurrentId, last, commandHistory, redoStack>>

\* useDragAndDrop.handleDragEnd after the await: invalidate and reset
FinishDrop(i) ==
  /\ calls[i].op = "handleDragEnd"
  /\ calls' = [calls EXCEPT ![i] = Idle]
  /\ last' = LogResp("handleDragEnd", 0, calls[i].ok, calls[i].code, Len(redoStack))
  /\ UNCHANGED <<tasks, taskCurrentId, commandHistory, redoStack, cmds, moved, undone>>

NextDrop ==
  \/ \E taskId \in Ids, sourceStatus \in Statuses, targetStatus \in Statuses,
        targetTaskId \in {Undef} \cup Ids, placeBefore \in PlaceBeforeVals, hookFirst \in BOOLEAN :
       DropMove(taskId, sourceStatus, targetStatus, targetTaskId, placeBefore, hookFirst)
  \/ \E taskId \in Ids, targetTaskId \in Ids, status \in Statuses,
        position \in ReorderPosVals, hookFirst \in BOOLEAN :
       DropReorder(taskId, targetTaskId, status, position, hookFirst)
  \/ \E i \in 1..MaxCalls : FinishDrop(i)
  \/ \E i \in 1..MaxCalls : FinishExecute(i)
  \/ StartUndo(TRUE)
  \/ \E i \in 1..MaxCalls : FinishUndo(i)
  \/ StartRedo(TRUE)
  \/ \E i \in 1..MaxCalls : FinishRedo(i)

SpecDrop == Init /\ [][NextDrop]_vars

(* --------- the middleware store's command history (middleware/) --------- *)
\* store.getState().commandHistory: useMiddlewareCommandHistory hands its
\* past and future to the components as commandHistory and redoStack, and
\* in this specification the two variables of those names hold them
StoreState == [past |-> commandHistory, future |-> redoStack]

\* createMiddlewareChain: an action that reaches the end of the chain is
\* returned as it is; state is assigned only by updateState, which nothing
\* calls
ProcessAction(state, type) == state

\* commandHistoryMiddleware: the updatedState each case builds
ExecuteUpdatedState(state, cid) == [past |-> Append(state.past, cid), future |-> <<>>]

UndoUpdatedState(state) ==
  [past |-> SubSeq(state.past, 1, Len(state.past) - 1),
   future |-> <<state.past[Len(state.past)]>> \o state.future]

RedoUpdatedState(state) ==
  [past |-> Append(state.past, state.future[1]), future |-> Tail(state.future)]

\* what a dispatch leaves in the store and in last
Dispatched(type, state, cid, ok, code) ==
  /\ commandHistory' = state.past
  /\ redoStack' = state.future
  /\ last' = LogResp(type, cid, ok, code, Len(redoStack))

\* dispatch(actions.executeCommand(command)): case EXECUTE_COMMAND awaits
\* command.execute(), builds updatedState and dispatches _SUCCESS or _ERROR
DispatchExecute(c, netOk) ==
  /\ Len(cmds) < MaxCmd
  /\ LET cid == Len(cmds) + 1
         code == ExecuteCode(tasks, c)
         ok == ExecuteResolves(c, code, netOk)
         state == StoreState
         updatedState == ExecuteUpdatedState(state, cid)
     IN /\ cmds' = Append(cmds, c)
        /\ tasks' = ExecuteStore(tasks, c)
        /\ InRange(tasks')
        /\ Dispatched("EXECUTE_COMMAND",
                      ProcessAction(state, IF ok THEN "EXECUTE_COMMAND_SUCCESS"
                                                 ELSE "EXECUTE_COMMAND_ERROR"),
                      cid, ok, code)
  /\ UNCHANGED <<taskCurrentId, calls, moved, undone>>

\* store.dispatch(actions.executeCommand(command)) with a MoveTaskCommand or a
\* ReorderTaskCommand for a card of the board
ExecuteMoveCommand(taskId, sourceStatus, targetStatus, custom, netOk) ==
  /\ Shown(taskId, sourceStatus)
  /\ sourceStatus # targetStatus
  /\ DispatchExecute(MoveTaskCommand(taskId, sourceStatus, targetStatus, custom, Undef), netOk)

ExecuteReorderCommand(taskId, targetTaskId, status, netOk) ==
  /\ Shown(taskId, status)
  /\ Shown(targetTaskId, status)
  /\ taskId # targetTaskId
  /\ DispatchExecute(ReorderTaskCommand(status, tasks, taskId, targetTaskId), netOk)

\* dispatch(actions.undoCommand()): case UNDO_COMMAND, "Nothing to undo"
\* when past is empty
DispatchUndo(netOk) ==
  LET state == StoreState
  IN /\ IF Len(state.past) = 0
          THEN /\ tasks' = tasks
               /\ Dispatched("UNDO_COMMAND", state, 0, FALSE, 0)
          ELSE LET cid == state.past[Len(state.past)]
                   code == UndoCode(tasks, cmds[cid])
                   ok == UndoResolves(cmds[cid], code, netOk)
                   updatedState == UndoUpdatedState(state)
               IN /\ tasks' = UndoStore(tasks, cmds[cid])
                  /\ Dispatched("UNDO_COMMAND",
                                ProcessAction(state, IF ok THEN "UNDO_COMMAND_SUCCESS"
                                                           ELSE "UNDO_COMMAND_ERROR"),
                                cid, ok, code)
     /\ UNCHANGED <<taskCurrentId, cmds, calls, moved, undone>>

\* dispatch(actions.redoCommand()): case REDO_COMMAND, "Nothing to redo"
\* when future is empty
DispatchRedo(netOk) ==
  LET state == StoreState
  IN /\ IF Len(state.future) = 0
          THEN /\ tasks' = tasks
               /\ Dispatched("REDO_COMMAND", state, 0, FALSE, 0)
          ELSE LET cid == state.future[1]
                   code == ExecuteCode(tasks, cmds[cid])
                   ok == ExecuteResolves(cmds[cid], code, netOk)
                   updatedState == RedoUpdatedState(state)
               IN /\ tasks' = ExecuteStore(tasks, cmds[cid])
                  /\ Dispatched("REDO_COMMAND",
                                ProcessAction(state, IF ok THEN "REDO_COMMAND_SUCCESS"
                                                           ELSE "REDO_COMMAND_ERROR"),
                                cid, ok, code)
     /\ UNCHANGED <<taskCurrentId, cmds, calls, moved, undone>>

NextMiddleware ==
  \/ \E taskId \in Ids, sourceStatus \in Statuses, targetStatus \in Statuses,
        custom \in BOOLEAN, netOk \in BOOLEAN :
       ExecuteMoveCommand(taskId, sourceStatus, targetStatus, custom, netOk)
  \/ \E taskId \in Ids, targetTaskId \in Ids, status \in Statuses, netOk \in BOOLEAN :
       ExecuteReorderCommand(taskId, targetTaskId, status, netOk)
  \/ \E netOk \in BOOLEAN : DispatchUndo(netOk)
  \/ \E netOk \in BOOLEAN : DispatchRedo(netOk)
  \/ \E status \in Statuses :
       PostTask(status, Undef) /\ last' = PostTaskResp(status, Undef) /\ UNCHANGED logVars
  \/ \E id \in Ids : DeleteCard(id)

SpecMiddleware == Init /\ [][NextMiddleware]_vars

(* ------------------------------ properties ------------------------------ *)
\* the positions of a column are exactly 0..N-1
Dense(T, status) ==
  LET col == Column(T, status)
  IN \A i \in 1..Len(col) : T[col[i]].position = i - 1

Without(seq, x) == SelectSeq(seq, LAMBDA t : t # x)

\* the last request was a successful move of a task into column last.status
MoveDone == last.op = "PATCH status" /\ last.code = 200

\* the last request was a successful reorder inside one column
ReorderDone ==
  /\ last.op = "POST reorder" /\ last.code = 200
  /\ last.id \in DOMAIN tasks /\ last.tgt \in DOMAIN tasks
  /\ tasks[last.id].status = tasks[last.tgt].status

\* C1: after every successful move or reorder, the positions of the tasks of
\* the affected column are exactly 0, 1, ..., N-1, with no gaps and no
\* duplicates
C1_DenseAfterMoveOrReorder ==
  /\ MoveDone => Dense(tasks, last.status)
  /\ ReorderDone => Dense(tasks, tasks[last.id].status)

\* C2: no two tasks of the same status ever share a position
C2_NoSharedPosition ==
  \A a, b \in DOMAIN tasks :
    (a # b /\ tasks[a].status = tasks[b].status) => tasks[a].position # tasks[b].position

\* the request answered in the next state is reorderTask(t, g, placeBefore)
\* with t and g distinct tasks of one column and an explicit side: PATCH
\* /status to the task's own status with targetTaskId and placeBefore, or POST
\* /reorder with position "before" or "after"
ReorderRequested ==
  LET r == last'
  IN /\ r.code = 200
     /\ r.id # r.tgt
     /\ r.id \in DOMAIN tasks /\ r.tgt \in DOMAIN tasks
     /\ tasks[r.id].status = tasks[r.tgt].status
     /\ \/ r.op = "PATCH status" /\ r.status = tasks[r.id].status /\ r.pb \in {"true", "false"}
        \/ r.op = "POST reorder" /\ r.pb \in {"before", "after"}

ReorderPlaced ==
  LET r == last'
      status == tasks[r.id].status
      before == Column(tasks, status)
      after == Column(tasks', status)
  IN /\ tasks'[r.id].status = status
     /\ r.pb \in {"true", "before"} => IndexOf(after, r.id) + 1 = IndexOf(after, r.tgt)
     /\ r.pb \in {"false", "after"} => IndexOf(after, r.id) = IndexOf(after, r.tgt) + 1
     /\ Dense(tasks', status)
     /\ Without(after, r.id) = Without(before, r.id)

\* C4: reorderTask(t, g, placeBefore) with t and g distinct tasks of one
\* column leaves t immediately before g when placeBefore is true and
\* immediately after g when it is false, the column renumbered 0..N-1 and the
\* relative order of every other task unchanged
C4_ReorderPlacesNextToTarget == [][ReorderRequested => ReorderPlaced]_vars

\* task 3 was dropped before task 1 at the head of a three-task column
C4_Witness ==
  /\ last.op = "POST reorder" /\ last.code = 200 /\ last.pb = "before"
  /\ last.id = 3 /\ last.tgt = 1
  /\ Column(tasks, "todo") = <<3, 1, 2>>
  /\ Dense(tasks, "todo")

\* the last call of the command log to complete
Executed == last.op = "executeCommand"

Undid == last.op = "undo"

\* C3: after a successful executeCommand(c) the command c is the last entry
\* of the past stack and the future stack is empty, so canUndo is true and
\* canRedo is false
C3_ExecutePushesAndClears ==
  (Executed /\ last.ok) =>
    /\ canUndo
    /\ commandHistory[Len(commandHistory)] = last.cmd
    /\ redoStack = <<>>
    /\ ~canRedo

\* a command was executed while the future stack held an undone command
C3_Witness ==
  /\ Executed /\ last.ok /\ last.n > 0
  /\ commandHistory[Len(commandHistory)] = last.cmd
  /\ redoStack = <<>>

\* C5: a task that a MoveTaskCommand's execute moved out of status S, and
\* that nothing else has acted on, has status S again once the command's undo
\* has run
C5_UndoRestoresStatus ==
  \A t \in Ids :
    undone[t] # 0 =>
      /\ t \in DOMAIN tasks
      /\ tasks[t].status = cmds[undone[t]].sourceStatus

\* an undo of a move completed and went from the past to the future stack
C5_Witness ==
  /\ Undid /\ last.ok /\ last.code = 200
  /\ \E t \in Ids :
       /\ undone[t] = last.cmd
       /\ tasks[t].status = cmds[last.cmd].sourceStatus
       /\ tasks[t].status # cmds[last.cmd].targetStatus
  /\ redoStack # <<>> /\ redoStack[Len(redoStack)] = last.cmd

\* C6: after the undo of a ReorderTaskCommand the column has the order and
\* the positions of the snapshot the command captured before it executed
C6_UndoRestoresOrder ==
  (Undid /\ last.ok /\ cmds[last.cmd].kind = "reorder") =>
    Snapshot(tasks, cmds[last.cmd].sourceStatus) = cmds[last.cmd].previousOrder

\* C7: a command is never in both stacks, and never twice in one
C7_CommandInOnePlace ==
  LET both == commandHistory \o redoStack
  IN \A i, j \in 1..Len(both) : both[i] = both[j] => i = j

\* C8: an executeCommand whose underlying request failed leaves both stacks
\* as they were, and the command is not in the past stack
C8_FailedExecuteLeavesStacks ==
  [][(last'.op = "executeCommand" /\ last'.code >= 400) =>
       /\ commandHistory' = commandHistory
       /\ redoStack' = redoStack
       /\ last'.cmd \notin Range(commandHistory')]_vars

\* C9: an executeCommand, undo or redo whose command failed rejects: the
\* error reaches the caller
C9_FailureReachesCaller ==
  (last.op \in {"executeCommand", "undo", "redo"} /\ (~last.ok \/ last.code >= 400)) =>
    last.outcome = "rejected"

\* C10: after an undo whose command failed, the command is in neither stack
C10_FailedUndoDropsCommand ==
  (Undid /\ (~last.ok \/ last.code >= 400)) =>
    /\ last.cmd \notin Range(commandHistory)
    /\ last.cmd \notin Range(redoStack)

\* the request answered in the next state is a move of an existing task that
\* names a target task the store does not have
MissingTargetRequested ==
  LET r == last'
  IN /\ r.op = "PATCH status"
     /\ r.id \in DOMAIN tasks
     /\ Truthy(r.tgt) /\ r.tgt \notin DOMAIN tasks

\* C11: a move whose target task id is not in the store fails with NotFound
\* and changes no task
C11_MissingTargetNotFound ==
  [][MissingTargetRequested => (last'.code = 404 /\ tasks' = tasks)]_vars

\* the request answered in the next state moves task t into another column
\* S relative to a task g of S, with placeBefore given
CrossMoveRequested ==
  LET r == last'
  IN /\ r.op = "PATCH status" /\ r.code = 200
     /\ r.id \in DOMAIN tasks /\ r.tgt \in DOMAIN tasks
     /\ r.id # r.tgt
     /\ tasks[r.id].status # r.status
     /\ tasks[r.tgt].status = r.status
     /\ r.pb \in {"true", "false"}

CrossMovePlaced ==
  LET r == last'
      after == Column(tasks', r.status)
  IN /\ r.pb = "true" => IndexOf(after, r.id) + 1 = IndexOf(after, r.tgt)
     /\ r.pb = "false" => IndexOf(after, r.id) = IndexOf(after, r.tgt) + 1

\* C12: a cross-column move of t relative to g leaves t immediately before g
\* when placeBefore is true and immediately after g when it is false, for
\* every choice of t and g
C12_CrossMovePlacesNextToTarget == [][CrossMoveRequested => CrossMovePlaced]_vars

\* the request answered in the next state is a same-column reorder route
\* call for two existing tasks of different statuses
CrossColumnReorderRequested ==
  LET r == last'
  IN /\ r.op = "POST reorder"
     /\ r.id \in DOMAIN tasks /\ r.tgt \in DOMAIN tasks
     /\ tasks[r.id].status # tasks[r.tgt].status

\* C15: a reorder of two existing tasks of different statuses is answered
\* with an error and changes no task
C15_CrossColumnReorderRejected ==
  [][CrossColumnReorderRequested => (last'.code >= 400 /\ tasks' = tasks)]_vars

\* the request answered in the next state names the moved task itself as
\* its target
SelfTargetRequested ==
  LET r == last'
  IN /\ r.op \in {"POST reorder", "PATCH status"}
     /\ r.id \in DOMAIN tasks
     /\ r.tgt = r.id

\* C16: positioning a task relative to itself is rejected and changes
\* nothing, on POST /reorder and on PATCH /status
C16_SelfTargetRejected ==
  [][SelfTargetRequested => (last'.code = 400 /\ tasks' = tasks)]_vars

\* the request answered in the next state moves a task to the status it
\* already has and names no target task
SameStatusMoveRequested ==
  LET r == last'
  IN /\ r.op = "PATCH status"
     /\ r.id \in DOMAIN tasks
     /\ r.status = tasks[r.id].status
     /\ ~Truthy(r.tgt)

\* C17: a move to the task's own status without a target task is rejected
\* and no task changes
C17_SameStatusMoveRejected ==
  [][SameStatusMoveRequested => (last'.code >= 400 /\ tasks' = tasks)]_vars

\* the request answered in the next state moves a task to another column
\* with no target task, no position and no toTop
PlainCrossMoveRequested ==
  LET r == last'
  IN /\ r.op = "PATCH status" /\ r.code = 200
     /\ r.id \in DOMAIN tasks
     /\ r.status # tasks[r.id].status
     /\ ~Truthy(r.tgt) /\ r.pos = Undef /\ ~r.top

\* C18: a cross-column move with no placement intent puts the task at the
\* tail of the target column
C18_PlainCrossMoveToTail ==
  [][PlainCrossMoveRequested =>
       \A t \in DOMAIN tasks' :
         (t # last'.id /\ tasks'[t].status = last'.status) =>
           PosOr0(tasks'[t].position) < PosOr0(tasks'[last'.id].position)]_vars

\* the calls awaiting a mutating request they dispatched
InFlight == {i \in 1..MaxCalls : calls[i].op # ""}

\* C13: at most one mutating operation (move, reorder, undo, redo) is in
\* flight against the task store at any time
C13_OneMutationInFlight == Cardinality(InFlight) <= 1

\* call i is an undo (a redo) whose command resolved and which returns from
\* its await in this step
UndoReturns(i) == calls[i].op = "undo" /\ calls[i].ok /\ calls'[i].op = ""

RedoReturns(i) == calls[i].op = "redo" /\ calls[i].ok /\ calls'[i].op = ""

\* C14: the command an undo has undone is the one it takes from the end of
\* the past stack, and the command a redo has re-executed is the one it takes
\* from the end of the future stack, so that an undo followed by a redo puts
\* both stacks back
C14_UndoRedoTakeWhatTheyRan ==
  [][\A i \in 1..MaxCalls :
       /\ UndoReturns(i) =>
            /\ canUndo
            /\ commandHistory[Len(commandHistory)] = calls[i].cmd
       /\ RedoReturns(i) =>
            /\ canRedo
            /\ redoStack[Len(redoStack)] = calls[i].cmd]_vars

\* task t is first in its column: position 0, every other task below it
AtTop(T, t) ==
  /\ PosOr0(T[t].position) = 0
  /\ \A u \in DOMAIN T : (u # t /\ T[u].status = T[t].status) => PosOr0(T[u].position) > 0

\* C19: after the undo of a MoveTaskCommand has completed successfully, the
\* moved task is at the top of its source column: position 0, every other
\* task of the column at a greater position
C19_UndoPutsTaskOnTop ==
  \A t \in Ids :
    (Undid /\ last.ok /\ last.code = 200 /\ undone[t] = last.cmd /\ InFlight = {}) =>
      /\ t \in DOMAIN tasks
      /\ AtTop(tasks, t)

\* call slot i starts awaiting op in this step
Starts(i, op) == calls[i].op = "" /\ calls'[i].op = op

\* the step changes no status and no column membership, except of task t
SameStatusesBut(t) ==
  /\ DOMAIN tasks' = DOMAIN tasks
  /\ \A u \in DOMAIN tasks : u # t => tasks'[u].status = tasks[u].status

\* C20: execute, undo, redo of one command with nothing in between leaves
\* every task with the status it had just before the undo. A task that a
\* command's execute moved has the command's targetStatus as long as nothing
\* else acts on it; the undo and the redo change the status of no task but
\* the command's own (of none for a reorder or a deleted task); the redo of
\* a command whose undo was the last to act on its task gives the task the
\* targetStatus again
C20_RedoRestoresStatuses ==
  /\ [](\A t \in Ids :
          moved[t] # 0 =>
            /\ t \in DOMAIN tasks
            /\ tasks[t].status = cmds[moved[t]].targetStatus)
  /\ [][\A i \in 1..MaxCalls :
          /\ Starts(i, "undo") =>
                LET c == cmds[calls'[i].cmd]
                IN IF c.kind = "move" /\ c.taskId \in DOMAIN tasks
                     THEN SameStatusesBut(c.taskId)
                     ELSE SameStatusesBut(0)
          /\ Starts(i, "redo") =>
                LET cid == calls'[i].cmd
                    c == cmds[cid]
                IN IF c.kind = "move" /\ c.taskId \in DOMAIN tasks
                     THEN /\ SameStatusesBut(c.taskId)
                          /\ undone[c.taskId] = cid =>
                                tasks'[c.taskId].status = c.targetStatus
                     ELSE SameStatusesBut(0)]_vars

\* the redo of a move completed after its undo had put the task back: the
\* task is in the target column again and the command is back on the past stack
C20_Witness ==
  /\ last.op = "redo" /\ last.ok /\ last.code = 200
  /\ \E t \in Ids :
       /\ moved[t] = last.cmd
       /\ t \in DOMAIN tasks
       /\ tasks[t].status = cmds[last.cmd].targetStatus
       /\ tasks[t].status # cmds[last.cmd].sourceStatus
  /\ canUndo /\ commandHistory[Len(commandHistory)] = last.cmd

\* the request answered in the next state is a move of an existing task to
\* another column with toTop, no target task and no position
TopMoveRequested ==
  LET r == last'
  IN /\ r.op = "PATCH status" /\ r.code = 200
     /\ r.top /\ r.tgt = Undef /\ r.pos = Undef
     /\ r.id \in DOMAIN tasks
     /\ tasks[r.id].status # r.status

TopMovePlaced ==
  LET r == last'
  IN /\ tasks'[r.id].status = r.status
     /\ AtTop(tasks', r.id)
     /\ Column(tasks, r.status) = <<>> => Column(tasks', r.status) = <<r.id>>

\* C21: a cross-column move with toTop and neither target nor position puts
\* the task at position 0 of the target column, every other task of that
\* column at a greater position; into an empty column it is the only member
C21_TopMovePutsTaskOnTop == [][TopMoveRequested => TopMovePlaced]_vars

\* a toTop move put task 2 above task 1, which had been first in the column
C21_Witness ==
  /\ last.op = "PATCH status" /\ last.code = 200
  /\ last.top /\ last.tgt = Undef /\ last.pos = Undef
  /\ last.id = 2 /\ last.status = "done"
  /\ Column(tasks, "done") = <<2, 1>>
  /\ tasks[2].position = 0 /\ tasks[1].position = 1

\* the step adds and removes no task and changes no status but that of task
\* t, and leaves every task outside column status, other than t, as it was
OnlyColumnTouched(t, status) ==
  /\ DOMAIN tasks' = DOMAIN tasks
  /\ \A u \in DOMAIN tasks :
       u # t =>
         /\ tasks'[u].status = tasks[u].status
         /\ tasks[u].status # status => tasks'[u] = tasks[u]

\* C22: a move changes only the moved task's status and position and the
\* positions of tasks of the target column: the tasks left in the source
\* column keep their positions and every other column is untouched; a
\* reorder changes only positions, and only in the column of the task
C22_OnlyTheTargetColumnChanges ==
  [][LET r == last'
     IN /\ (r.op = "PATCH status" /\ r.code = 200) => OnlyColumnTouched(r.id, r.status)
        /\ r.op = "POST reorder" =>
             IF r.id \in DOMAIN tasks
               THEN /\ OnlyColumnTouched(0, tasks[r.id].status)
                    /\ tasks'[r.id].status = tasks[r.id].status
               ELSE tasks' = tasks]_vars

\* task 2 was moved out of a three-task column, which keeps its gap
C22_Witness ==
  /\ last.op = "PATCH status" /\ last.code = 200
  /\ last.id = 2 /\ last.status = "done"
  /\ DOMAIN tasks = {1, 2, 3}
  /\ tasks[2].status = "done"
  /\ tasks[1] = [status |-> "todo", position |-> 0]
  /\ tasks[3] = [status |-> "todo", position |-> 2]

\* C23: a task created without a position gets the greatest position of its
\* column plus one, or 0 in an empty column, and no existing task changes
C23_CreatedAtBottom ==
  [][LET r == last'
         members == {u \in DOMAIN tasks : tasks[u].status = r.status}
     IN (r.op = "POST task" /\ r.pos = Undef) =>
          /\ r.id \notin DOMAIN tasks
          /\ DOMAIN tasks' = DOMAIN tasks \cup {r.id}
          /\ tasks'[r.id].status = r.status
          /\ members = {} => tasks'[r.id].position = 0
          /\ members # {} =>
               /\ \E u \in members : tasks'[r.id].position = PosOr0(tasks[u].position) + 1
               /\ \A u \in members : PosOr0(tasks[u].position) < tasks'[r.id].position
          /\ \A u \in DOMAIN tasks : tasks'[u] = tasks[u]]_vars

\* task 3 was created in a column whose only task is at position 1
C23_Witness ==
  /\ last.op = "POST task" /\ last.pos = Undef /\ last.id = 3 /\ last.status = "todo"
  /\ DOMAIN tasks = {1, 2, 3}
  /\ tasks[1].status = "done"
  /\ tasks[2] = [status |-> "todo", position |-> 1]
  /\ tasks[3] = [status |-> "todo", position |-> 2]

\* the positions of the tasks of column status are pairwise distinct
Distinct(T, status) ==
  \A a, b \in DOMAIN T :
    (a # b /\ T[a].status = status /\ T[b].status = status) =>
      PosOr0(T[a].position) # PosOr0(T[b].position)

\* the request answered in the next state is POST /reorder of t onto another
\* task g of the same column with no position in the body
HeuristicReorderRequested ==
  LET r == last'
  IN /\ r.op = "POST reorder" /\ r.code = 200 /\ r.pb = "undefined"
     /\ tasks[r.id].status = tasks[r.tgt].status

HeuristicReorderPlaced ==
  LET r == last'
      status == tasks[r.id].status
      before == Column(tasks, status)
      after == Column(tasks', status)
      down == PosOr0(tasks[r.id].position) < PosOr0(tasks[r.tgt].position)
  IN /\ down => IndexOf(after, r.id) = IndexOf(after, r.tgt) + 1
     /\ ~down => IndexOf(after, r.id) + 1 = IndexOf(after, r.tgt)
     /\ Distinct(tasks, status) => IndexOf(after, r.id) = IndexOf(before, r.tgt)

\* C24: a same-column reorder of t onto g without an explicit side places t
\* after g when t's position is lower than g's and before g otherwise; with
\* distinct positions in the column, t ends at the index g held before
C24_ReorderSideFromDirection == [][HeuristicReorderRequested => HeuristicReorderPlaced]_vars

\* task 1 was dropped on task 3 two places below it and took its place
C24_Witness ==
  /\ last.op = "POST reorder" /\ last.code = 200 /\ last.pb = "undefined"
  /\ last.id = 1 /\ last.tgt = 3
  /\ Column(tasks, "todo") = <<2, 3, 1>>
  /\ tasks[1].position = 2

\* the column as the command's snapshot recorded it
SnapshotTasks(c) ==
  [t \in {c.previousOrder[i].id : i \in 1..Len(c.previousOrder)} |->
     [status |-> c.sourceStatus,
      position |-> c.previousOrder[IndexOf([i \in 1..Len(c.previousOrder) |-> c.previousOrder[i].id], t)].position]]

\* the order the original execute of reorder command c produced from the
\* column it captured (<<>> when its request changed nothing)
ExecutedOrder(c) ==
  LET T0 == SnapshotTasks(c)
  IN IF c.taskId \in DOMAIN T0 /\ c.targetTaskId \in DOMAIN T0
       THEN ReorderedColumn(T0, c.taskId, c.targetTaskId,
                            ReorderPlaceAfter(T0, c.taskId, c.targetTaskId, "undefined"))
       ELSE <<>>

Numbered(order) == [i \in 1..Len(order) |-> [id |-> order[i], position |-> i - 1]]

\* C25: execute, undo, redo of a ReorderTaskCommand with nothing in between
\* leaves the column in the order the original execute produced: a redo
\* that finds the column exactly as the execute left it leaves that order
C25_RedoKeepsExecutedOrder ==
  [][\A i \in 1..MaxCalls :
       (Starts(i, "redo") /\ calls'[i].ok /\ cmds[calls'[i].cmd].kind = "reorder") =>
         LET c == cmds[calls'[i].cmd]
             order == ExecutedOrder(c)
         IN (order # <<>> /\ Snapshot(tasks, c.sourceStatus) = Numbered(order)) =>
              Column(tasks', c.sourceStatus) = order]_vars

\* C26: in the middleware store, after a successful EXECUTE_COMMAND past
\* ends with the command and future is empty; after a successful
\* UNDO_COMMAND the command is at the front of future and no longer the end
\* of past; after a successful REDO_COMMAND it is the end of past again
C26_StoreHistoryFollowsActions ==
  /\ (last.op = "EXECUTE_COMMAND" /\ last.ok) =>
       /\ canUndo
       /\ commandHistory[Len(commandHistory)] = last.cmd
       /\ redoStack = <<>>
  /\ (last.op = "UNDO_COMMAND" /\ last.ok) =>
       /\ canRedo
       /\ redoStack[1] = last.cmd
  /\ (last.op = "REDO_COMMAND" /\ last.ok) =>
       /\ canUndo
       /\ commandHistory[Len(commandHistory)] = last.cmd

\* store T2 shows every column, task t left out, in the order store T shows it
OthersKeepOrder(T, T2, t) ==
  \A status \in Statuses : Without(Column(T2, status), t) = Without(Column(T, status), t)

\* C27: every move into a column and every reorder inside a column keeps
\* the display order (ascending position, ties in creation order) of the
\* column's other tasks; the request of a move's undo is such a move, so a
\* move and its undo keep the order of the others in both columns. Stated
\* of every PATCH /status and POST /reorder request the store can receive in
\* the state it is in
C27_OthersKeepOrder ==
  /\ \A id \in DOMAIN tasks, status \in Statuses, targetTaskId \in {Undef} \cup Ids,
        position \in {Undef} \cup PosInputs, placeBefore \in PlaceBeforeVals :
       OthersKeepOrder(tasks,
                       PatchStatusStore(tasks, id, status, targetTaskId, position, FALSE, placeBefore),
                       id)
  /\ \A id \in Ids, targetTaskId \in Ids, position \in ReorderPosVals :
       OthersKeepOrder(tasks, PostReorderStore(tasks, id, targetTaskId, position), id)

\* tasks 1 and 2 share a position in column todo, 1 shown first; task 3 is
\* in the other column and a move of 3 to position 0 of todo renumbers the
\* column with 1 still before 2
C27_Witness ==
  /\ DOMAIN tasks = {1, 2, 3}
  /\ tasks[1].status = "todo" /\ tasks[2].status = "todo" /\ tasks[3].status = "done"
  /\ PosOr0(tasks[1].position) = PosOr0(tasks[2].position)
  /\ LET T2 == PatchStatusStore(tasks, 3, "todo", Undef, 0, FALSE, "undefined")
     IN /\ Column(T2, "todo") = <<1, 2, 3>>
        /\ T2[1].position = 0 /\ T2[2].position = 1 /\ T2[3].position = 2

\* C28: from the sample board, creating without a position, moving (to the
\* top, next to a target or to an explicit non-negative position),
\* reordering and deleting, the positions of each column stay pairwise
\* distinct and non-negative; gaps may appear
C28_DistinctNonNegative ==
  /\ \A t \in DOMAIN tasks : tasks[t].position >= 0
  /\ \A status \in Statuses : Distinct(tasks, status)

\* column done holds task 2 at position 0 and task 1 at position 2: a gap
\* left by top placements
C28_Witness ==
  /\ last.op = "PATCH status" /\ last.code = 200 /\ last.id = 2
  /\ 1 \in DOMAIN tasks /\ 2 \in DOMAIN tasks
  /\ tasks[1] = [status |-> "done", position |-> 2]
  /\ tasks[2] = [status |-> "done", position |-> 0]

\* t and g are next to each other in the display order of column status
Adjacent(T, status, t, g) ==
  LET col == Column(T, status)
      d == IndexOf(col, t) - IndexOf(col, g)
  IN t \in Range(col) /\ g \in Range(col) /\ (d = 1 \/ d = -1)

\* C29: a cross-column move of t with target g, g in the destination column
\* and the positions of that column pairwise distinct beforehand, leaves t
\* and g adjacent in the destination column. Stated of every such PATCH
\* /status request the store can receive in the state it is in
C29_CrossMoveAdjacentToTarget ==
  \A t \in DOMAIN tasks, g \in DOMAIN tasks, placeBefore \in PlaceBeforeVals :
    (/\ tasks[t].status # tasks[g].status
     /\ Distinct(tasks, tasks[g].status)) =>
      Adjacent(PatchStatusStore(tasks, t, tasks[g].status, g, Undef, FALSE, placeBefore),
               tasks[g].status, t, g)

\* task 1 is alone in todo, tasks 2 and 3 are in done at distinct positions,
\* 2 first; moving 1 to done with target 3 puts it between 2 and 3
C29_Witness ==
  /\ DOMAIN tasks = {1, 2, 3}
  /\ tasks[1].status = "todo" /\ tasks[2].status = "done" /\ tasks[3].status = "done"
  /\ PosOr0(tasks[2].position) < PosOr0(tasks[3].position)
  /\ Column(PatchStatusStore(tasks, 1, "done", 3, Undef, FALSE, "true"), "done") = <<2, 1, 3>>

\* C30: the task record a move returns (the PATCH /status response) is the
\* record stored for the task when the request completes: same position
C30_ReturnedRecordIsStored ==
  MoveDone => (last.id \in DOMAIN tasks /\ last.ret = tasks[last.id].position)

====
